---- MODULE Spec2Model ----
(***************************************************************************)
(* In-graph beam search of neuralmonkey/decoders/beam_search_decoder.py    *)
(* (BeamSearchDecoder) as a state machine: the tf.while_loop of            *)
(* _decoding_loop, its cond and the body returned by get_body.             *)
(*                                                                         *)
(* Rows, matrices and TensorArrays keep the 0-based indices of the source: *)
(* a beam vector is a function on 0..B-1, the B x V matrices are functions *)
(* on 0..B-1 of functions on 0..V-1, a TensorArray is a function on the    *)
(* set of indices written so far.                                          *)
(***************************************************************************)
EXTENDS Integers, Sequences, FiniteSets, TLC

\* ------------------------------------------------------------------ bounds
\* largest beam_size, vocabulary size and max_steps of a configuration
MaxBeam == 2
MaxVocab == 4
MaxSteps == 2
\* largest hypothesis length and largest exponent given to _length_penalty
\* when it is called on its own
MaxLength == 6
MaxAlpha == 2
\* largest number of items in a dataset given to feed_dict
MaxDataset == 2
\* largest number of save and load calls made on one model part
MaxCalls == 5

\* ------------------------------------------------- vocabulary token indices
PAD_TOKEN_INDEX == 0
START_TOKEN_INDEX == 1
END_TOKEN_INDEX == 2

\* --------------------------------------------------------- float32 values
\* A float32 is one of
\*   fin  : the rational n/d (d > 0, reduced), an ordinary magnitude;
\*   huge : the rational multiple n/d (0 < n/d <= 1) of tf.float32.min, the
\*          most negative finite float32; adding an ordinary magnitude to it
\*          is absorbed by rounding, and going below float32.min overflows;
\*   ninf : minus infinity;
\*   nan  : not a number.
RECURSIVE Gcd(_, _)
Gcd(a, b) == IF b = 0 THEN a ELSE Gcd(b, a % b)

Abs(a) == IF a < 0 THEN -a ELSE a

Reduce(k, n, d) ==
    LET g == Gcd(Abs(n), d)
    IN  [k |-> k, n |-> n \div g, d |-> d \div g]

Fin(n) == [k |-> "fin", n |-> n, d |-> 1]
NegInf == [k |-> "ninf", n |-> 0, d |-> 1]
NaN == [k |-> "nan", n |-> 0, d |-> 1]
\* tf.float32.min itself
Float32Min == [k |-> "huge", n |-> 1, d |-> 1]

IsNaN(x) == x.k = "nan"

\* a multiple n/d of float32.min, overflowing to -inf beyond float32.min
HugeOrInf(n, d) == IF n > d THEN NegInf ELSE Reduce("huge", n, d)

\* x + y in float32
FAdd(x, y) ==
    IF x.k = "nan" \/ y.k = "nan" THEN NaN
    ELSE IF x.k = "ninf" \/ y.k = "ninf" THEN NegInf
    ELSE IF x.k = "huge" /\ y.k = "huge"
         THEN HugeOrInf(x.n * y.d + y.n * x.d, x.d * y.d)
    ELSE IF x.k = "huge" THEN x
    ELSE IF y.k = "huge" THEN y
    ELSE Reduce("fin", x.n * y.d + y.n * x.d, x.d * y.d)

\* m * x in float32 for a mask value m in {0., 1.}: 0 * inf is NaN
FMul(m, x) ==
    IF x.k = "nan" THEN NaN
    ELSE IF m = 1 THEN x
    ELSE IF x.k = "ninf" THEN NaN
    ELSE Fin(0)

\* x / p in float32 for a positive rational divisor p = <<pn, pd>>
FDiv(x, p) ==
    IF x.k = "nan" THEN NaN
    ELSE IF x.k = "ninf" THEN NegInf
    ELSE IF x.k = "huge" THEN HugeOrInf(x.n * p[2], x.d * p[1])
    ELSE Reduce("fin", x.n * p[2], x.d * p[1])

\* x < y for floats that are not NaN
FLess(x, y) ==
    IF x.k = "ninf" THEN y.k # "ninf"
    ELSE IF y.k = "ninf" THEN FALSE
    ELSE IF x.k = "huge"
         THEN IF y.k = "huge" THEN x.n * y.d > y.n * x.d ELSE TRUE
    ELSE IF y.k = "huge" THEN FALSE
    ELSE x.n * y.d < y.n * x.d

\* -------------------------------------------------------- configuration
\* values of the length_normalization exponent (alpha of eq. 14)
Alphas == {0, 1}

VARIABLES
    beam_size,              \* self._beam_size
    vocabulary,             \* len(self.parent_decoder.vocabulary)
    max_steps,              \* self._max_steps
    length_normalization,   \* self._length_normalization
    pc,                     \* "loop": in tf.while_loop; "done": outputs returned
    bs_state,               \* BeamSearchLoopState.bs_state (SearchState)
    bs_output,              \* BeamSearchLoopState.bs_output (SearchStepOutputTA)
    decoder_loop_state,     \* BeamSearchLoopState.decoder_loop_state
    outputs,                \* self.outputs, the stacked SearchStepOutput
    prev_bs_state,          \* body's bs_state: the SearchState the last body call read
    decoder_calls,          \* body's logits (line 181), one entry per decoder_body call
    topk_indices,           \* body's topk_indices of the last body call
    lp_lengths,             \* the lengths argument of a _length_penalty call
    lp_result,              \* what that _length_penalty call returned
    feed_call,              \* the last feed_dict call: its arguments and outcome
    model_part              \* the ModelPart fields of the decoder and its checkpoints

vars == <<beam_size, vocabulary, max_steps, length_normalization, pc, bs_state,
          bs_output, decoder_loop_state, outputs, prev_bs_state, decoder_calls,
          topk_indices, lp_lengths, lp_result, feed_call, model_part>>

config == <<beam_size, vocabulary, max_steps, length_normalization>>

Rows == 0 .. beam_size - 1
Tokens == 0 .. vocabulary - 1

\* ------------------------------------------------------- the step scorer
\* The logits of one decoder_body call are named by the shape of each row:
\* "flat" (all tokens alike), "peak" (all mass on one token, the others have
\* logit -inf) and "skew" (one token favoured, the others finite).
RowKinds == {"flat", "peak", "skew"}

\* the decoder outputs next_loop_state.prev_logits, one row kind per beam row
prev_logits == [Rows -> RowKinds]

\* the token a peaked row puts all its mass on: the end token when the
\* vocabulary holds it
PeakToken == IF END_TOKEN_INDEX \in Tokens THEN END_TOKEN_INDEX ELSE vocabulary - 1

\* tf.nn.log_softmax of one row: every entry is <= 0, at least one is finite,
\* and an entry is -inf exactly where the logit is
log_softmax_row(kind) ==
    [w \in Tokens |->
        CASE kind = "flat" -> Fin(-2)
          [] kind = "peak" -> IF w = PeakToken THEN Fin(0) ELSE NegInf
          [] kind = "skew" -> IF w = vocabulary - 1 THEN Fin(-1) ELSE Fin(-3)]

\* logprobs = tf.nn.log_softmax(logits), shape beam x vocabulary
log_softmax(logits) == [b \in Rows |-> log_softmax_row(logits[b])]

\* ------------------------------------------------------ initial loop state
\* an initial state whose lengths start at zero (tf.zeros for tf.ones) and
\* whose recurrent state is not the tiled one
initial_loop_state_untiled ==
    [bs_state |->
        [logprob_sum   |-> [i \in Rows |-> Fin(0)],
         lengths       |-> [i \in Rows |-> 0],
         finished      |-> [i \in Rows |-> FALSE],
         last_word_ids |-> [i \in Rows |-> START_TOKEN_INDEX],
         last_state    |-> [i \in Rows |-> <<0, i>>],
         last_attns    |-> [i \in Rows |-> <<0, 0>>]],
     bs_output |->
        [scores |-> <<>>, parent_ids |-> <<>>, token_ids |-> <<>>],
     decoder_loop_state |->
        [step           |-> 0,
         input_symbol   |-> [i \in Rows |-> START_TOKEN_INDEX],
         prev_rnn_state |-> [i \in Rows |-> <<0, i>>],
         prev_contexts  |-> [i \in Rows |-> <<0, 0>>],
         finished       |-> [i \in Rows |-> FALSE],
         attention_loop_states |-> [i \in Rows |-> <<0, i>>]]]

\* get_initial_loop_state: the SearchState of beam_size rows, the three empty
\* dynamic TensorArrays and the parent decoder's initial loop state. The one
\* initial decoder state, tiled, is named <<0, 0>> in every row.
get_initial_loop_state ==
    [bs_state |->
        [logprob_sum   |-> [i \in Rows |-> Fin(0)],
         lengths       |-> [i \in Rows |-> 1],
         finished      |-> [i \in Rows |-> FALSE],
         last_word_ids |-> [i \in Rows |-> START_TOKEN_INDEX],
         last_state    |-> [i \in Rows |-> <<0, 0>>],
         last_attns    |-> [i \in Rows |-> <<0, 0>>]],
     bs_output |->
        [scores |-> <<>>, parent_ids |-> <<>>, token_ids |-> <<>>],
     decoder_loop_state |->
        [step           |-> 0,
         input_symbol   |-> [i \in Rows |-> START_TOKEN_INDEX],
         prev_rnn_state |-> [i \in Rows |-> <<0, 0>>],
         prev_contexts  |-> [i \in Rows |-> <<0, 0>>],
         finished       |-> [i \in Rows |-> FALSE],
         attention_loop_states |-> [i \in Rows |-> <<0, i>>]]]

\* ------------------------------------------------------------ loop cond
\* cond that also leaves the loop once every hypothesis is finished
cond_until_finished(dls) ==
    dls.step < max_steps /\ \E i \in Rows : ~dls.finished[i]

\* cond that admits one iteration more
cond_inclusive(dls) == dls.step <= max_steps

\* cond of _decoding_loop: tf.less(bsls.decoder_loop_state.step, self._max_steps)
cond(dls) == dls.step < max_steps

\* ------------------------------------------------------------ body pieces
\* tf.to_float / tf.to_int32 of a finished flag
to_float(b) == IF b THEN 1 ELSE 0

\* finished_row: one_hot(PAD_TOKEN_INDEX, V, on_value=0., off_value=float32.min)
finished_row == [w \in Tokens |-> IF w = PAD_TOKEN_INDEX THEN Fin(0) ELSE Float32Min]

\* the masked logprobs: (1. - finished_mask) * logprobs + finished_mask * finished_row
mask_logprobs(finished, logprobs) ==
    [b \in Rows |-> [w \in Tokens |->
        FAdd(FMul(1 - to_float(finished[b]), logprobs[b][w]),
             FMul(to_float(finished[b]), finished_row[w]))]]

\* the step's logprobs alone, the parent's sum left out
hyp_probs_step_only(logprob_sum, logprobs) ==
    [b \in Rows |-> [w \in Tokens |-> logprobs[b][w]]]

\* hyp_probs = tf.expand_dims(bs_state.logprob_sum, 1) + logprobs
hyp_probs_of(logprob_sum, logprobs) ==
    [b \in Rows |-> [w \in Tokens |-> FAdd(logprob_sum[b], logprobs[b][w])]]

\* candidate lengths that grow for finished rows too
hyp_lengths_unfrozen(lengths, finished) ==
    [b \in Rows |-> lengths[b] + 1]

\* hyp_lengths = bs_state.lengths + 1 - tf.to_int32(bs_state.finished)
hyp_lengths_of(lengths, finished) ==
    [b \in Rows |-> lengths[b] + 1 - to_float(finished[b])]

RECURSIVE Pow(_, _)
Pow(x, n) == IF n = 0 THEN 1 ELSE x * Pow(x, n - 1)

\* the penalty without its normalizing divisor (5. + 1.) ** alpha
_length_penalty_unnormalized(length) ==
    IF length_normalization >= 0
    THEN <<Pow(5 + length, length_normalization), 1>>
    ELSE <<1, Pow(5 + length, -length_normalization)>>

\* the penalty normalized at length 5 instead of length 1
_length_penalty_at_five(length) ==
    IF length_normalization >= 0
    THEN <<Pow(5 + length, length_normalization), Pow(5 + 5, length_normalization)>>
    ELSE <<Pow(5 + 5, -length_normalization), Pow(5 + length, -length_normalization)>>

\* _length_penalty: (5. + lengths) ** alpha / (5. + 1.) ** alpha, as the
\* positive rational <<numerator, denominator>>
_length_penalty(length) ==
    IF length_normalization >= 0
    THEN <<Pow(5 + length, length_normalization), Pow(5 + 1, length_normalization)>>
    ELSE <<Pow(5 + 1, -length_normalization), Pow(5 + length, -length_normalization)>>

\* the joint log-probabilities themselves as scores, no penalty applied
scores_unnormalized(hyp_probs, hyp_lengths) ==
    [b \in Rows |-> [w \in Tokens |-> hyp_probs[b][w]]]

\* scores = hyp_probs / tf.expand_dims(self._length_penalty(hyp_lengths), 1)
scores_of(hyp_probs, hyp_lengths) ==
    [b \in Rows |-> [w \in Tokens |->
        FDiv(hyp_probs[b][w], _length_penalty(hyp_lengths[b]))]]

\* tf.reshape(m, [beam_size * V]): row-major flattening
reshape_flat(m) ==
    [n \in 0 .. beam_size * vocabulary - 1 |-> m[n \div vocabulary][n % vocabulary]]

\* a vector as a value computed once: the same function, fully evaluated
Tensor(f) == f @@ <<>>

\* a matrix as a value computed once
Matrix(m) == Tensor([b \in DOMAIN m |-> Tensor(m[b])])

\* x ranks strictly below y in the order a top_k kernel sorts by, when that
\* kernel places every NaN above (nan_high) or below all other values
RanksBelow(x, y, nan_high) ==
    IF IsNaN(x) THEN ~IsNaN(y) /\ ~nan_high
    ELSE IF IsNaN(y) THEN nan_high
    ELSE FLess(x, y)

\* a first-ranked entry that among equal values takes the highest index
TopOneLastIndex(flat, S, nan_high) ==
    CHOOSE i \in S : \A j \in S \ {i} :
        RanksBelow(flat[j], flat[i], nan_high) \/ (flat[j] = flat[i] /\ i > j)

\* the entry of S that tf.nn.top_k ranks first: the largest value, and among
\* equal values the lowest index
TopOne(flat, S, nan_high) ==
    CHOOSE i \in S : \A j \in S \ {i} :
        RanksBelow(flat[j], flat[i], nan_high) \/ (flat[j] = flat[i] /\ i < j)

\* the k first-ranked entries of S in rank order
RECURSIVE TopKSorted(_, _, _, _)
TopKSorted(flat, S, k, nan_high) ==
    IF k = 0 THEN <<>>
    ELSE CHOOSE seq \in {<<b>> \o TopKSorted(flat, S \ {b}, k - 1, nan_high) :
                            b \in {TopOne(flat, S, nan_high)}} : TRUE

\* a sequence of indices as a vector on 0 .. k-1
IndexVector(seq) == Tensor([i \in 0 .. Len(seq) - 1 |-> seq[i + 1]])

\* The index vectors tf.nn.top_k(flat, k) can return: the k largest entries
\* in descending order, equal entries by ascending index. A NaN compares
\* false with everything, so where the kernel ranks it is not determined by
\* the call: it may come out above or below every other value.
top_k(flat, k) ==
    {IndexVector(TopKSorted(flat, DOMAIN flat, k, nan_high)) :
        nan_high \in IF \E n \in DOMAIN flat : IsNaN(flat[n]) THEN BOOLEAN ELSE {TRUE}}

\* tf.gather(params, indices)
gather(params, indices) == [i \in DOMAIN indices |-> params[indices[i]]]

\* the flat index itself taken as the token id
next_word_ids_flat(indices) == [i \in DOMAIN indices |-> indices[i]]

\* next_word_ids = tf.mod(topk_indices, V)
next_word_ids_of(indices) == [i \in DOMAIN indices |-> indices[i] % vocabulary]

\* next_beam_ids = tf.div(topk_indices, V)
next_beam_ids_of(indices) == [i \in DOMAIN indices |-> indices[i] \div vocabulary]

\* the previous flag taken from the row's own index, not from its parent
next_finished_by_row(finished, beam_ids, word_ids) ==
    [i \in DOMAIN beam_ids |-> finished[i] \/ (word_ids[i] = END_TOKEN_INDEX)]

\* finished only where the end token was just chosen
next_finished_just(finished, beam_ids, word_ids) ==
    [i \in DOMAIN beam_ids |-> word_ids[i] = END_TOKEN_INDEX]

\* next_finished = logical_or(gather(bs_state.finished, next_beam_ids),
\*                            equal(next_word_ids, END_TOKEN_INDEX))
next_finished_of(finished, beam_ids, word_ids) ==
    [i \in DOMAIN beam_ids |->
        gather(finished, beam_ids)[i] \/ (word_ids[i] = END_TOKEN_INDEX)]

\* a write that always lands on entry 0, whatever the index
ta_write_first(ta, index, value) == [i \in {0} |-> value]

\* TensorArray.write(index, value)
ta_write(ta, index, value) ==
    [i \in DOMAIN ta \cup {index} |-> IF i = index THEN value ELSE ta[i]]

\* TensorArray.stack(): the entries 0 .. size-1 as the rows of one tensor
ta_stack(ta) == [i \in 1 .. Cardinality(DOMAIN ta) |-> ta[i - 1]]

\* decoder_body(*dec_loop_state): the parent decoder's step. It advances the
\* step counter by one; what it computes for input row b (the recurrent
\* state, the attention contexts, the attention loop state) is named
\* <<call number, input row>>.
decoder_body(dls) ==
    [step      |-> dls.step + 1,
     rnn_state |-> [b \in Rows |-> <<dls.step + 1, b>>],
     prev_contexts |-> [b \in Rows |-> <<dls.step + 1, b>>],
     attention_loop_states |-> [b \in Rows |-> <<dls.step + 1, b>>]]

\* the scores_flat vector that body hands to tf.nn.top_k, from the
\* SearchState it reads and the logprobs of line 188
scores_flat_of(state, logprobs) ==
    Tensor(reshape_flat(scores_of(
        hyp_probs_of(state.logprob_sum, mask_logprobs(state.finished, logprobs)),
        hyp_lengths_of(state.lengths, state.finished))))

\* -------------------------------------------------------------- ModelPart
\* Python's None as a checkpoint path
None == "None"

\* the values a checkpoint path argument takes: None, the empty string, a path
CheckpointPaths == {None, "", "part.ckpt"}

\* the truth value Python gives a path in `if path:`
Truthy(path) == path # None /\ path # ""

\* ModelPart.__init__: the paths are stored and there is no saver. A saver is
\* named by the number of savers created up to and including it, 0 is None.
\* events are the save and restore calls made on savers, in order; calls
\* counts the save and load calls made on the part.
ModelPart_init(save_checkpoint, load_checkpoint) ==
    [_save_checkpoint |-> save_checkpoint,
     _load_checkpoint |-> load_checkpoint,
     _saver           |-> 0,
     savers_created   |-> 0,
     events           |-> <<>>,
     calls            |-> 0]

\* an _init_saver that builds a new saver on every call
_init_saver_always(part) ==
    [part EXCEPT !._saver = part.savers_created + 1,
                 !.savers_created = part.savers_created + 1]

\* _init_saver: if not self._saver: self._saver = tf.train.Saver(...)
_init_saver(part) ==
    IF part._saver = 0
    THEN [part EXCEPT !._saver = part.savers_created + 1,
                      !.savers_created = part.savers_created + 1]
    ELSE part

\* save(session): if self._save_checkpoint: _init_saver(); _saver.save(...)
save(part) ==
    IF Truthy(part._save_checkpoint)
    THEN LET p == _init_saver(part)
         IN  [p EXCEPT !.events = Append(@, [op |-> "save", saver |-> p._saver,
                                             path |-> p._save_checkpoint])]
    ELSE part

\* load(session): if self._load_checkpoint: _init_saver(); _saver.restore(...)
load(part) ==
    IF Truthy(part._load_checkpoint)
    THEN LET p == _init_saver(part)
         IN  [p EXCEPT !.events = Append(@, [op |-> "restore", saver |-> p._saver,
                                             path |-> p._load_checkpoint])]
    ELSE part

\* -------------------------------------------------------------- feed_dict
\* feed_dict has not been called
no_feed_call == [dataset_len |-> 0, train |-> FALSE, outcome |-> "none", value |-> {}]

\* a feed_dict without its assertions
feed_dict_unchecked(dataset_len, train) ==
    [dataset_len |-> dataset_len, train |-> train, outcome |-> "return", value |-> {}]

\* feed_dict(dataset, train): assert not train; assert len(dataset) == 1;
\* return {}. The feed dictionary is the set of its items.
feed_dict(dataset_len, train) ==
    IF train
    THEN [dataset_len |-> dataset_len, train |-> train,
          outcome |-> "AssertionError", value |-> {}]
    ELSE IF dataset_len # 1
    THEN [dataset_len |-> dataset_len, train |-> train,
          outcome |-> "AssertionError", value |-> {}]
    ELSE [dataset_len |-> dataset_len, train |-> train,
          outcome |-> "return", value |-> {}]

\* ------------------------------------------------------------ the machine
\* BeamSearchDecoder.__init__ followed by get_initial_loop_state
Init ==
    /\ beam_size \in 1 .. MaxBeam
    /\ vocabulary \in 1 .. MaxVocab
    /\ max_steps \in 0 .. MaxSteps
    /\ length_normalization \in Alphas
    /\ pc = "loop"
    /\ bs_state = get_initial_loop_state.bs_state
    /\ bs_output = get_initial_loop_state.bs_output
    /\ decoder_loop_state = get_initial_loop_state.decoder_loop_state
    /\ outputs = <<>>
    /\ prev_bs_state = get_initial_loop_state.bs_state
    /\ decoder_calls = <<>>
    /\ topk_indices = <<>>
    /\ lp_lengths = <<>>
    /\ lp_result = <<>>
    /\ feed_call = no_feed_call
    /\ model_part = ModelPart_init(None, None)

\* One iteration of tf.while_loop: cond holds and body runs. The locals of
\* body are bound in the order body assigns them.
Iterate ==
    /\ pc = "loop"
    /\ cond(decoder_loop_state)
    /\ \E logits \in prev_logits :
       \E next_loop_state \in {decoder_body(decoder_loop_state)} :
       \E logprobs \in {Matrix(mask_logprobs(bs_state.finished, log_softmax(logits)))} :
       \E hyp_probs \in {Matrix(hyp_probs_of(bs_state.logprob_sum, logprobs))} :
       \E hyp_lengths \in {Tensor(hyp_lengths_of(bs_state.lengths, bs_state.finished))} :
       \E scores_flat \in {Tensor(reshape_flat(scores_of(hyp_probs, hyp_lengths)))} :
       \E indices \in top_k(scores_flat, beam_size) :
       \E hyp_probs_flat \in {Tensor(reshape_flat(hyp_probs))} :
       \E next_word_ids \in {Tensor(next_word_ids_of(indices))} :
       \E next_beam_ids \in {Tensor(next_beam_ids_of(indices))} :
       \E next_finished \in
            {Tensor(next_finished_of(bs_state.finished, next_beam_ids, next_word_ids))} :
       \E next_rnn_state \in {Tensor(gather(next_loop_state.rnn_state, next_beam_ids))} :
       \E next_attns \in {Tensor(gather(next_loop_state.prev_contexts, next_beam_ids))} :
          /\ bs_output' =
                [scores     |-> ta_write(bs_output.scores, decoder_loop_state.step,
                                         gather(scores_flat, indices)),
                 parent_ids |-> ta_write(bs_output.parent_ids, decoder_loop_state.step,
                                         next_beam_ids),
                 token_ids  |-> ta_write(bs_output.token_ids, decoder_loop_state.step,
                                         next_word_ids)]
          /\ bs_state' =
                [logprob_sum   |-> gather(hyp_probs_flat, indices),
                 lengths       |-> gather(hyp_lengths, next_beam_ids),
                 finished      |-> next_finished,
                 last_word_ids |-> next_word_ids,
                 last_state    |-> next_rnn_state,
                 last_attns    |-> next_attns]
          /\ decoder_loop_state' =
                [step           |-> next_loop_state.step,
                 input_symbol   |-> next_word_ids,
                 prev_rnn_state |-> next_rnn_state,
                 prev_contexts  |-> next_attns,
                 finished       |-> next_finished,
                 attention_loop_states |-> next_loop_state.attention_loop_states]
          /\ prev_bs_state' = bs_state
          /\ decoder_calls' = Append(decoder_calls, logits)
          /\ topk_indices' = indices
    /\ UNCHANGED <<config, pc, outputs, lp_lengths, lp_result, feed_call, model_part>>

\* cond fails: tf.while_loop returns and _decoding_loop stacks the output log
Return ==
    /\ pc = "loop"
    /\ ~cond(decoder_loop_state)
    /\ outputs' = [scores     |-> ta_stack(bs_output.scores),
                   parent_ids |-> ta_stack(bs_output.parent_ids),
                   token_ids  |-> ta_stack(bs_output.token_ids)]
    /\ pc' = "done"
    /\ UNCHANGED <<config, bs_state, bs_output, decoder_loop_state,
                   prev_bs_state, decoder_calls, topk_indices, lp_lengths, lp_result,
                   feed_call, model_part>>

Next == Iterate \/ Return

Spec == Init /\ [][Next]_vars

\* the same machine under the scheduling of tf.while_loop: the loop is run
\* to completion, no enabled step is postponed forever
FairSpec == Spec /\ WF_vars(Next)

\* --------------------------------------------------- feed_dict calls
\* the runner calls feed_dict(dataset, train) on the decoder
FeedDict ==
    /\ \E dataset_len \in 0 .. MaxDataset : \E train \in BOOLEAN :
          feed_call' = feed_dict(dataset_len, train)
    /\ UNCHANGED <<config, pc, bs_state, bs_output, decoder_loop_state, outputs,
                   prev_bs_state, decoder_calls, topk_indices, lp_lengths, lp_result,
                   model_part>>

\* ------------------------------------------------ save and load calls
\* a model part constructed with some checkpoint paths
CheckpointInit ==
    /\ beam_size = 1
    /\ vocabulary = 1
    /\ max_steps = 0
    /\ length_normalization = 0
    /\ pc = "checkpoint"
    /\ bs_state = get_initial_loop_state.bs_state
    /\ bs_output = get_initial_loop_state.bs_output
    /\ decoder_loop_state = get_initial_loop_state.decoder_loop_state
    /\ outputs = <<>>
    /\ prev_bs_state = get_initial_loop_state.bs_state
    /\ decoder_calls = <<>>
    /\ topk_indices = <<>>
    /\ lp_lengths = <<>>
    /\ lp_result = <<>>
    /\ feed_call = no_feed_call
    /\ \E save_checkpoint \in CheckpointPaths : \E load_checkpoint \in CheckpointPaths :
          model_part = ModelPart_init(save_checkpoint, load_checkpoint)

\* part.save(session)
Save ==
    /\ model_part.calls < MaxCalls
    /\ model_part' = [save(model_part) EXCEPT !.calls = @ + 1]
    /\ UNCHANGED <<config, pc, bs_state, bs_output, decoder_loop_state, outputs,
                   prev_bs_state, decoder_calls, topk_indices, lp_lengths, lp_result,
                   feed_call>>

\* part.load(session)
Load ==
    /\ model_part.calls < MaxCalls
    /\ model_part' = [load(model_part) EXCEPT !.calls = @ + 1]
    /\ UNCHANGED <<config, pc, bs_state, bs_output, decoder_loop_state, outputs,
                   prev_bs_state, decoder_calls, topk_indices, lp_lengths, lp_result,
                   feed_call>>

CheckpointSpec == CheckpointInit /\ [][Save \/ Load]_vars

\* ------------------------------------------- _length_penalty on its own
\* exponents given to a lone _length_penalty call
PenaltyAlphas == -1 .. MaxAlpha

\* a decoder with some exponent, and a lengths tensor of beam_size
\* hypothesis lengths about to be passed to _length_penalty
PenaltyInit ==
    /\ beam_size \in 1 .. MaxBeam
    /\ vocabulary = 1
    /\ max_steps = 0
    /\ length_normalization \in PenaltyAlphas
    /\ pc = "penalty"
    /\ bs_state = get_initial_loop_state.bs_state
    /\ bs_output = get_initial_loop_state.bs_output
    /\ decoder_loop_state = get_initial_loop_state.decoder_loop_state
    /\ outputs = <<>>
    /\ prev_bs_state = get_initial_loop_state.bs_state
    /\ decoder_calls = <<>>
    /\ topk_indices = <<>>
    /\ lp_lengths \in [Rows -> 1 .. MaxLength]
    /\ lp_result = <<>>
    /\ feed_call = no_feed_call
    /\ model_part = ModelPart_init(None, None)

\* self._length_penalty(lengths): the penalty of every entry
ApplyPenalty ==
    /\ pc = "penalty"
    /\ lp_result' = [b \in Rows |-> _length_penalty(lp_lengths[b])]
    /\ pc' = "applied"
    /\ UNCHANGED <<config, bs_state, bs_output, decoder_loop_state, outputs,
                   prev_bs_state, decoder_calls, topk_indices, lp_lengths, feed_call,
                   model_part>>

PenaltySpec == PenaltyInit /\ [][ApplyPenalty]_vars

\* ----------------------------------------------------- reading the state
\* at least one body call has completed
Iterated == decoder_loop_state.step >= 1

\* the entries the last body call wrote to the output log
LastParents == bs_output.parent_ids[decoder_loop_state.step - 1]
LastTokens == bs_output.token_ids[decoder_loop_state.step - 1]
LastScores == bs_output.scores[decoder_loop_state.step - 1]

\* the logprobs (line 201) and the flat scores of the last body call,
\* recomputed from the state it read and the logits it got
LastLogprobs ==
    mask_logprobs(prev_bs_state.finished,
                  log_softmax(decoder_calls[decoder_loop_state.step]))
LastScoresFlat ==
    scores_flat_of(prev_bs_state, log_softmax(decoder_calls[decoder_loop_state.step]))

AllFinished == \A i \in Rows : bs_state.finished[i]

\* ------------------------------------------------------------------ C1
\* C1: for B, V, M >= 1 the decode result is three arrays (scores,
\* parent_ids, token_ids) of exactly M rows of exactly B entries, every
\* parent index is in 0..B-1 and every token id is in 0..V-1.
C1_OutputShape ==
    (pc = "done" /\ beam_size >= 1 /\ vocabulary >= 1 /\ max_steps >= 1) =>
        /\ DOMAIN outputs = {"scores", "parent_ids", "token_ids"}
        /\ \A a \in DOMAIN outputs :
              /\ DOMAIN outputs[a] = 1 .. max_steps
              /\ \A t \in 1 .. max_steps : DOMAIN outputs[a][t] = Rows
        /\ \A t \in 1 .. max_steps : \A i \in Rows :
              /\ outputs.parent_ids[t][i] \in 0 .. beam_size - 1
              /\ outputs.token_ids[t][i] \in 0 .. vocabulary - 1

C1_Witness ==
    /\ pc = "done"
    /\ beam_size = MaxBeam /\ vocabulary = MaxVocab /\ max_steps = MaxSteps
    /\ \E i \in Rows : outputs.parent_ids[max_steps][i] = beam_size - 1
    /\ \E i \in Rows : outputs.token_ids[max_steps][i] = vocabulary - 1

C3_FinishedOnlyPad ==
    Iterated =>
        \A i \in Rows :
            prev_bs_state.finished[LastParents[i]] => LastTokens[i] = PAD_TOKEN_INDEX

\* ------------------------------------------------------------------ C4
\* C4: the finished flag is monotonic along parent pointers (a row whose
\* parent was finished is finished) and a row with an unfinished parent is
\* marked finished exactly when its chosen token is the end token.
C4_FinishedMonotonic ==
    Iterated =>
        \A i \in Rows :
            /\ prev_bs_state.finished[LastParents[i]] => bs_state.finished[i]
            /\ ~prev_bs_state.finished[LastParents[i]] =>
                  (bs_state.finished[i] <=> LastTokens[i] = END_TOKEN_INDEX)

\* one row continues a finished parent with a token other than the end
\* token, another one has just finished
C4_Witness ==
    /\ Iterated
    /\ \E i \in Rows :
          prev_bs_state.finished[LastParents[i]] /\ LastTokens[i] # END_TOKEN_INDEX
    /\ \E i \in Rows :
          ~prev_bs_state.finished[LastParents[i]] /\ LastTokens[i] = END_TOKEN_INDEX

\* ------------------------------------------------------------------ C5
\* C5: after every iteration the cumulative log-probability stored for a new
\* row is exactly its parent's stored cumulative log-probability plus the
\* selected token's log-probability under the masked distribution; the
\* length-normalized score is what is written to the output log, and it is
\* not what is stored.
C5_RawLogprobSum ==
    Iterated =>
        \A i \in Rows :
            /\ bs_state.logprob_sum[i] =
                  FAdd(prev_bs_state.logprob_sum[LastParents[i]],
                       LastLogprobs[LastParents[i]][LastTokens[i]])
            /\ LastScores[i] =
                  FDiv(bs_state.logprob_sum[i], _length_penalty(bs_state.lengths[i]))

\* a row whose parent had a non-zero sum and whose normalized score differs
\* from the sum that is stored
C5_Witness ==
    /\ Iterated
    /\ \E i \in Rows :
          /\ prev_bs_state.logprob_sum[LastParents[i]] # Fin(0)
          /\ bs_state.logprob_sum[i].k = "fin"
          /\ LastScores[i] # bs_state.logprob_sum[i]

\* ------------------------------------------------------------------ C6
\* x >= y as floats compare: false when either is NaN
FGeq(x, y) == ~IsNaN(x) /\ ~IsNaN(y) /\ ~FLess(x, y)

\* C6: at every iteration the B selected pairs are B pairs of highest
\* length-normalized score among all B*V pairs, in non-increasing score
\* order, and of two pairs of equal score the one with the lower row-major
\* index parent*V + token comes first (and is the one selected if only one
\* of them fits).
C6_TopKOrder ==
    Iterated =>
        LET flat == LastScoresFlat
            sel  == {topk_indices[i] : i \in Rows}
        IN  /\ \A i, j \in Rows : i < j =>
                  /\ FGeq(flat[topk_indices[i]], flat[topk_indices[j]])
                  /\ flat[topk_indices[i]] = flat[topk_indices[j]] =>
                        topk_indices[i] < topk_indices[j]
            /\ \A i \in Rows : \A n \in DOMAIN flat \ sel :
                  /\ FGeq(flat[topk_indices[i]], flat[n])
                  /\ flat[topk_indices[i]] = flat[n] => topk_indices[i] < n

\* ------------------------------------------------------------------ C8
\* C8: a configuration with beam width <= 0, max steps <= 0 or vocabulary
\* size <= 0 is rejected before the loop starts: no iteration is executed
\* and no output arrays are returned for it.
C8_ConfigRejected ==
    (beam_size <= 0 \/ max_steps <= 0 \/ vocabulary <= 0) =>
        (pc # "done" /\ decoder_loop_state.step = 0)

\* ------------------------------------------------------------------ C9
\* C9: the loop terminates: every step that changes the loop state (an
\* iteration) raises the step counter by exactly one and starts from the
\* state the previous iteration completed, and for every max_steps >= 0 the
\* loop eventually stops at step = max_steps and returns the stacked output
\* log.
C9_Terminates ==
    /\ [][(bs_state' # bs_state \/ bs_output' # bs_output
             \/ decoder_loop_state' # decoder_loop_state) =>
            /\ decoder_loop_state'.step = decoder_loop_state.step + 1
            /\ decoder_loop_state.step < max_steps
            /\ prev_bs_state' = bs_state]_vars
    /\ <>(/\ pc = "done"
          /\ decoder_loop_state.step = max_steps
          /\ outputs = [scores     |-> ta_stack(bs_output.scores),
                        parent_ids |-> ta_stack(bs_output.parent_ids),
                        token_ids  |-> ta_stack(bs_output.token_ids)]
          /\ Len(outputs.scores) = max_steps)

C9_Witness ==
    pc = "done" /\ max_steps = MaxSteps /\ decoder_loop_state.step = MaxSteps

\* ----------------------------------------------------------------- C10
\* the end-to-end scenario: B = 2, V = 4 (0 = pad, 1 = start, 2 = end,
\* 3 = word), M = 3, exponent 0
ScenarioInit ==
    /\ beam_size = 2
    /\ vocabulary = 4
    /\ max_steps = 3
    /\ length_normalization = 0
    /\ pc = "loop"
    /\ bs_state = get_initial_loop_state.bs_state
    /\ bs_output = get_initial_loop_state.bs_output
    /\ decoder_loop_state = get_initial_loop_state.decoder_loop_state
    /\ outputs = <<>>
    /\ prev_bs_state = get_initial_loop_state.bs_state
    /\ decoder_calls = <<>>
    /\ topk_indices = <<>>
    /\ lp_lengths = <<>>
    /\ lp_result = <<>>
    /\ feed_call = no_feed_call
    /\ model_part = ModelPart_init(None, None)

ScenarioSpec == ScenarioInit /\ [][Next]_vars

\* the scenario's decoder with feed_dict calls of the runner in between
FeedSpec == ScenarioInit /\ [][Next \/ FeedDict]_vars

\* the scenario's scorer: hypothesis 0 has log-probability 0 for the end
\* token and -inf for all others, hypothesis 1 is uniform
ScenarioLogits == [b \in Rows |-> IF b = 0 THEN "peak" ELSE "flat"]

InScenario == \A n \in 1 .. Len(decoder_calls) : decoder_calls[n] = ScenarioLogits

\* the rows of log entry t (0-based) that descend from the first-ranked row
\* of step 1
RECURSIVE FirstRowDescendants(_)
FirstRowDescendants(t) ==
    IF t = 0 THEN {0}
    ELSE {i \in Rows : bs_output.parent_ids[t][i] \in FirstRowDescendants(t - 1)}

\* C10: in the scenario the first-ranked entry of step 1 is the candidate
\* choosing token 2 (of hypothesis 0) with score 0, that row is marked
\* finished, and its descendants emit only token 0 at every later step.
C10_Scenario ==
    (InScenario /\ Iterated) =>
        /\ bs_output.token_ids[0][0] = END_TOKEN_INDEX
        /\ bs_output.parent_ids[0][0] = 0
        /\ bs_output.scores[0][0] = Fin(0)
        /\ \A i \in FirstRowDescendants(decoder_loop_state.step - 1) :
              bs_state.finished[i]
        /\ \A t \in 1 .. decoder_loop_state.step - 1 :
              \A i \in FirstRowDescendants(t) :
                  bs_output.token_ids[t][i] = PAD_TOKEN_INDEX

\* ----------------------------------------------------------------- C11
\* C11: the initial loop state has exactly B rows, every row has cumulative
\* log-probability 0, length 1, finished = false, last token = the start
\* token and the same recurrent state (the one initial decoder state tiled B
\* times); the output log is empty (size 0) and growable: its size is the
\* number of iterations written so far.
C11_InitialState ==
    /\ decoder_loop_state.step = 0 =>
          /\ \A f \in DOMAIN bs_state :
                DOMAIN bs_state[f] = 0 .. beam_size - 1
          /\ Cardinality(DOMAIN bs_state.logprob_sum) = beam_size
          /\ \A i \in Rows :
                /\ bs_state.logprob_sum[i] = Fin(0)
                /\ bs_state.lengths[i] = 1
                /\ bs_state.finished[i] = FALSE
                /\ bs_state.last_word_ids[i] = START_TOKEN_INDEX
                /\ \A j \in Rows : bs_state.last_state[i] = bs_state.last_state[j]
          /\ \A a \in DOMAIN bs_output : DOMAIN bs_output[a] = {}
    /\ \A a \in DOMAIN bs_output :
          DOMAIN bs_output[a] = 0 .. decoder_loop_state.step - 1

\* the initial state of the widest beam, about to enter the loop
C11_Witness ==
    /\ pc = "loop"
    /\ decoder_loop_state.step = 0
    /\ beam_size = MaxBeam
    /\ max_steps = MaxSteps
    /\ bs_output.scores = <<>>

\* ----------------------------------------------------------------- C12
\* the rational p = <<n, d>> equals 1
IsOne(p) == p[1] = p[2]

\* p <= q for positive rationals
RatLeq(p, q) == p[1] * q[2] <= q[1] * p[2]

\* ((5 + L) / 6) ^ alpha: the fraction in lowest terms, then raised
PenaltyFormula(L, alpha) ==
    LET g == Gcd(5 + L, 6)
        n == (5 + L) \div g
        d == 6 \div g
    IN  IF alpha >= 0 THEN <<Pow(n, alpha), Pow(d, alpha)>>
        ELSE <<Pow(d, -alpha), Pow(n, -alpha)>>

\* C12: the length penalty of a length L >= 1 with exponent alpha equals
\* ((5 + L) / 6) ^ alpha: it is 1 at L = 1 for every alpha, it is constant
\* (equal to 1) in L when alpha = 0, and it is monotonically non-decreasing
\* in L when alpha > 0.
C12_LengthPenalty ==
    pc = "applied" =>
        /\ \A b \in Rows :
              /\ lp_result[b][1] > 0 /\ lp_result[b][2] > 0
              /\ lp_result[b][1] * PenaltyFormula(lp_lengths[b], length_normalization)[2]
                    = PenaltyFormula(lp_lengths[b], length_normalization)[1] * lp_result[b][2]
              /\ lp_lengths[b] = 1 => IsOne(lp_result[b])
              /\ length_normalization = 0 => IsOne(lp_result[b])
        /\ length_normalization > 0 =>
              \A b, c \in Rows :
                  lp_lengths[b] <= lp_lengths[c] => RatLeq(lp_result[b], lp_result[c])

\* the penalties of two different lengths under a positive exponent, the
\* longer length having the strictly larger one
C12_Witness ==
    /\ pc = "applied"
    /\ length_normalization = MaxAlpha
    /\ \E b, c \in Rows :
          /\ lp_lengths[b] = 1 /\ lp_lengths[c] = MaxLength
          /\ IsOne(lp_result[b])
          /\ ~RatLeq(lp_result[c], lp_result[b])

\* ----------------------------------------------------------------- C13
\* C13 as stated: the length penalty evaluates to exactly 1.0 at length 5
\* when the normalization exponent alpha is not 0.
C13_OneAtLengthFive ==
    pc = "applied" =>
        \A b \in Rows :
            (length_normalization # 0 /\ lp_lengths[b] = 5) => IsOne(lp_result[b])

\* C13 amended: the length penalty evaluates to exactly 1.0 at length 1 for
\* every alpha, and when alpha is not 0 at no other length: at length 5 it
\* is (10 / 6) ^ alpha.
C13_OneAtLengthOne ==
    pc = "applied" =>
        \A b \in Rows :
            /\ lp_lengths[b] = 1 => IsOne(lp_result[b])
            /\ length_normalization # 0 =>
                  (IsOne(lp_result[b]) <=> lp_lengths[b] = 1)
            /\ (length_normalization = 1 /\ lp_lengths[b] = 5) =>
                  lp_result[b][1] * 6 = 10 * lp_result[b][2]

\* the penalties of length 1 and of length 5 under a non-zero exponent
C13_Witness ==
    /\ pc = "applied"
    /\ length_normalization = 1
    /\ \E b, c \in Rows :
          /\ lp_lengths[b] = 1 /\ lp_lengths[c] = 5
          /\ IsOne(lp_result[b]) /\ ~IsOne(lp_result[c])

\* ----------------------------------------------------------------- C14
\* C14: a finished hypothesis is frozen: for a finished parent row the
\* masked log-probability of the padding token is 0 and its candidate length
\* is the parent's length unchanged, so a descendant that continues a
\* finished row with the padding token has the same cumulative
\* log-probability, the same length and the same normalized score as its
\* parent.
C14_FinishedFrozen ==
    Iterated =>
        /\ \A b \in Rows : prev_bs_state.finished[b] =>
              /\ LastLogprobs[b][PAD_TOKEN_INDEX] = Fin(0)
              /\ hyp_lengths_of(prev_bs_state.lengths, prev_bs_state.finished)[b]
                    = prev_bs_state.lengths[b]
        /\ \A i \in Rows :
              (prev_bs_state.finished[LastParents[i]]
                   /\ LastTokens[i] = PAD_TOKEN_INDEX) =>
                  /\ bs_state.logprob_sum[i] = prev_bs_state.logprob_sum[LastParents[i]]
                  /\ bs_state.lengths[i] = prev_bs_state.lengths[LastParents[i]]
                  /\ LastScores[i] =
                        FDiv(prev_bs_state.logprob_sum[LastParents[i]],
                             _length_penalty(prev_bs_state.lengths[LastParents[i]]))

\* ----------------------------------------------------------------- C15
\* C15: the output log is append-only: the iteration that starts with step
\* counter t writes its scores, parent ids and token ids at index t of the
\* three log arrays and leaves every entry at an index less than t
\* unchanged, so after k iterations the log holds exactly the k entries of
\* steps 0..k-1 in order.
C15_AppendOnly ==
    /\ [](\A a \in DOMAIN bs_output :
              DOMAIN bs_output[a] = 0 .. decoder_loop_state.step - 1)
    /\ [][bs_output' # bs_output =>
            /\ \A a \in DOMAIN bs_output :
                  /\ DOMAIN bs_output'[a] =
                        DOMAIN bs_output[a] \cup {decoder_loop_state.step}
                  /\ \A t \in DOMAIN bs_output[a] :
                        t < decoder_loop_state.step /\ bs_output'[a][t] = bs_output[a][t]
            /\ bs_output'.parent_ids[decoder_loop_state.step] =
                  next_beam_ids_of(topk_indices')
            /\ bs_output'.token_ids[decoder_loop_state.step] =
                  next_word_ids_of(topk_indices')
            /\ bs_output'.scores[decoder_loop_state.step] =
                  gather(scores_flat_of(bs_state,
                             log_softmax(decoder_calls'[Len(decoder_calls')])),
                         topk_indices')]_vars

\* a log of MaxSteps entries whose first and last entries differ
C15_Witness ==
    /\ decoder_loop_state.step = MaxSteps
    /\ DOMAIN bs_output.token_ids = 0 .. MaxSteps - 1
    /\ bs_output.token_ids[0] # bs_output.token_ids[MaxSteps - 1]
    /\ bs_output.scores[0] # bs_output.scores[MaxSteps - 1]

\* ----------------------------------------------------------------- C16
\* what the last decoder_body call computed for input row p
LastDecoderRow(p) == <<decoder_loop_state.step, p>>

\* C16: row consistency after every iteration: for each new row i with
\* recorded parent p and token w, the row's recurrent state, attention
\* contexts, length and inherited finished flag are all taken from the same
\* previous row p, its last token is w, and the decoder loop state passed to
\* the next scorer call is re-indexed by the same parents with w as the
\* input symbol; no field of row i comes from a different parent.
C16_RowConsistency ==
    Iterated =>
        \A i \in Rows :
            LET p == LastParents[i]
                w == LastTokens[i]
            IN  /\ bs_state.last_state[i] = LastDecoderRow(p)
                /\ bs_state.last_attns[i] = LastDecoderRow(p)
                /\ bs_state.lengths[i] =
                      hyp_lengths_of(prev_bs_state.lengths, prev_bs_state.finished)[p]
                /\ bs_state.finished[i] =
                      (prev_bs_state.finished[p] \/ w = END_TOKEN_INDEX)
                /\ bs_state.last_word_ids[i] = w
                /\ decoder_loop_state.input_symbol[i] = w
                /\ decoder_loop_state.prev_rnn_state[i] = LastDecoderRow(p)
                /\ decoder_loop_state.prev_contexts[i] = LastDecoderRow(p)
                /\ decoder_loop_state.finished[i] = bs_state.finished[i]
                /\ decoder_loop_state.attention_loop_states[i] = LastDecoderRow(p)

\* C16 without the attention loop states: every field that body gathers
\* comes from the recorded parent
C16_GatheredFields ==
    Iterated =>
        \A i \in Rows :
            LET p == LastParents[i]
                w == LastTokens[i]
            IN  /\ bs_state.last_state[i] = LastDecoderRow(p)
                /\ bs_state.last_attns[i] = LastDecoderRow(p)
                /\ bs_state.lengths[i] =
                      hyp_lengths_of(prev_bs_state.lengths, prev_bs_state.finished)[p]
                /\ bs_state.last_word_ids[i] = w
                /\ decoder_loop_state.input_symbol[i] = w
                /\ decoder_loop_state.prev_rnn_state[i] = LastDecoderRow(p)
                /\ decoder_loop_state.prev_contexts[i] = LastDecoderRow(p)
                /\ decoder_loop_state.finished[i] = bs_state.finished[i]

\* ----------------------------------------------------------------- C17
\* C17: for every entry written to the output log, parent_id * V + token_id
\* equals the flat index selected by the top-k (parent = index div V,
\* token = index mod V), and the recorded score equals the joint
\* log-probability of exactly that (parent, token) pair divided by the
\* length penalty of that parent's candidate length.
C17_IndexDecoding ==
    Iterated =>
        \A i \in Rows :
            LET p == LastParents[i]
                w == LastTokens[i]
            IN  /\ p * vocabulary + w = topk_indices[i]
                /\ p = topk_indices[i] \div vocabulary
                /\ w = topk_indices[i] % vocabulary
                /\ LastScores[i] =
                      FDiv(FAdd(prev_bs_state.logprob_sum[p], LastLogprobs[p][w]),
                           _length_penalty(prev_bs_state.lengths[p] + 1
                                           - to_float(prev_bs_state.finished[p])))

\* an entry of the second beam row's candidates with a token other than
\* padding, whose penalty is not 1 and whose score is finite and not 0
C17_Witness ==
    /\ Iterated
    /\ length_normalization = 1
    /\ \E i \in Rows :
          /\ LastParents[i] = MaxBeam - 1
          /\ LastTokens[i] > 0
          /\ prev_bs_state.lengths[LastParents[i]] >= 2
          /\ LastScores[i].k = "fin" /\ LastScores[i].n # 0

\* ----------------------------------------------------------------- C18
\* C18: feed_dict accepts only inference on a single sequence: it fails its
\* assertion when train is true or when the dataset does not contain
\* exactly one item, and otherwise returns an empty feed dictionary without
\* changing any decoder state.
C18_FeedDict ==
    /\ [](feed_call.outcome # "none" =>
            IF feed_call.train \/ feed_call.dataset_len # 1
            THEN feed_call.outcome = "AssertionError"
            ELSE feed_call.outcome = "return" /\ feed_call.value = {})
    /\ [][feed_call' # feed_call =>
            UNCHANGED <<config, pc, bs_state, bs_output, decoder_loop_state,
                        outputs>>]_vars

\* feed_dict has returned for a decoder that is in the middle of its loop
C18_Witness ==
    /\ feed_call.outcome = "return"
    /\ feed_call.dataset_len = 1 /\ ~feed_call.train
    /\ pc = "loop" /\ Iterated

\* ----------------------------------------------------------------- C19
\* all rows of a SearchState describe the same hypothesis
Degenerate(state) ==
    \A i, j \in Rows :
        /\ state.last_word_ids[i] = state.last_word_ids[j]
        /\ state.logprob_sum[i] = state.logprob_sum[j]
        /\ state.lengths[i] = state.lengths[j]
        /\ state.finished[i] = state.finished[j]

\* the scorer gave every row the same output in call n
UniformCall(n) == \A b, c \in Rows : decoder_calls[n][b] = decoder_calls[n][c]

\* in the scores of the last body call every row has one token that scores
\* strictly higher than every other token of the row
LastUniqueBest ==
    \A b \in Rows : \E w \in Tokens : \A x \in Tokens \ {w} :
        /\ ~IsNaN(LastScoresFlat[b * vocabulary + w])
        /\ ~IsNaN(LastScoresFlat[b * vocabulary + x])
        /\ FLess(LastScoresFlat[b * vocabulary + x], LastScoresFlat[b * vocabulary + w])

\* the first row was finished when body call n (1-based) started, read off
\* the output log
FinishedBefore(n) ==
    \E t \in 0 .. n - 2 : bs_output.token_ids[t][0] = END_TOKEN_INDEX

\* call n was uniform over the rows and its rows had a unique best token:
\* an unfinished row is not flat, a finished row has no -inf entry to mask
UniformUniqueCall(n) ==
    /\ UniformCall(n)
    /\ vocabulary > 1 =>
          IF FinishedBefore(n) THEN decoder_calls[n][0] # "peak"
          ELSE decoder_calls[n][0] # "flat"

\* C19: degenerate beam: all B initial rows are identical, and if the
\* scorer's output for a row depends only on that row's state and last token
\* and the best-scoring next token of a row is unique at every step, then
\* after every iteration all B rows are identical (same token, cumulative
\* log-probability, length and finished flag) and the parent ids of the step
\* are 0, 1, ..., B-1; the beam never holds two distinct hypotheses.
C19_DegenerateBeam ==
    /\ decoder_loop_state.step = 0 => Degenerate(bs_state)
    /\ (/\ Iterated
        /\ Degenerate(prev_bs_state)
        /\ UniformCall(decoder_loop_state.step)
        /\ LastUniqueBest) =>
          /\ Degenerate(bs_state)
          /\ \A i \in Rows : LastParents[i] = i
    /\ (\A n \in 1 .. Len(decoder_calls) : UniformUniqueCall(n)) =>
          /\ Degenerate(bs_state)
          /\ Iterated => LastUniqueBest
          /\ \A t \in DOMAIN bs_output.parent_ids : \A i \in Rows :
                /\ bs_output.parent_ids[t][i] = i
                /\ bs_output.token_ids[t][i] = bs_output.token_ids[t][0]

\* the widest beam after MaxSteps iterations of a uniform scorer with a
\* unique best token, finished along the way
C19_Witness ==
    /\ beam_size = MaxBeam
    /\ decoder_loop_state.step = MaxSteps
    /\ \A n \in 1 .. Len(decoder_calls) : UniformUniqueCall(n)
    /\ LastUniqueBest
    /\ Degenerate(prev_bs_state)
    /\ \A i \in Rows : bs_state.finished[i] /\ LastParents[i] = i

\* ----------------------------------------------------------------- C20
\* the tokens of row i of log entry t, followed along the parent pointers
\* back to entry 0, contain the end token
RECURSIVE ChainHasEnd(_, _)
ChainHasEnd(t, i) ==
    \/ bs_output.token_ids[t][i] = END_TOKEN_INDEX
    \/ (t > 0 /\ ChainHasEnd(t - 1, bs_output.parent_ids[t][i]))

\* C20: after every iteration a row is marked finished if and only if the
\* token sequence obtained by following its parent pointers back to step 0
\* contains the end token.
C20_FinishedIffEnd ==
    Iterated =>
        \A i \in Rows :
            bs_state.finished[i] <=> ChainHasEnd(decoder_loop_state.step - 1, i)

\* after MaxSteps iterations: a finished row whose end token lies earlier in
\* its chain, beside an unfinished row
C20_Witness ==
    /\ decoder_loop_state.step = MaxSteps
    /\ \E i \in Rows :
          /\ bs_state.finished[i]
          /\ LastTokens[i] # END_TOKEN_INDEX
          /\ ChainHasEnd(decoder_loop_state.step - 2, LastParents[i])
    /\ \E i \in Rows : ~bs_state.finished[i]

\* ----------------------------------------------------------------- C21
\* the 1-based step at which the end token was first emitted in the chain
\* of row i of log entry t, 0 when the chain holds no end token
RECURSIVE FirstEndStep(_, _)
FirstEndStep(t, i) ==
    LET earlier == IF t = 0 THEN 0
                   ELSE FirstEndStep(t - 1, bs_output.parent_ids[t][i])
    IN  IF earlier # 0 THEN earlier
        ELSE IF bs_output.token_ids[t][i] = END_TOKEN_INDEX THEN t + 1
        ELSE 0

\* C21: after t iterations every unfinished row has length exactly t + 1,
\* and every finished row has length 1 + k where k is the 1-based step at
\* which the end token was emitted in its parent-pointer chain, so every
\* length lies in 1..t+1 and never changes after the row's chain finishes.
C21_LengthInvariant ==
    /\ \A i \in Rows :
          /\ bs_state.lengths[i] \in 1 .. decoder_loop_state.step + 1
          /\ ~bs_state.finished[i] =>
                bs_state.lengths[i] = decoder_loop_state.step + 1
          /\ (Iterated /\ bs_state.finished[i]) =>
                bs_state.lengths[i] = 1 + FirstEndStep(decoder_loop_state.step - 1, i)
    /\ Iterated =>
          \A i \in Rows : prev_bs_state.finished[LastParents[i]] =>
              bs_state.lengths[i] = prev_bs_state.lengths[LastParents[i]]

\* after MaxSteps iterations: a row that finished at an earlier step and
\* kept its length, beside an unfinished row of full length
C21_Witness ==
    /\ decoder_loop_state.step = MaxSteps
    /\ \E i \in Rows :
          /\ bs_state.finished[i]
          /\ prev_bs_state.finished[LastParents[i]]
          /\ bs_state.lengths[i] < MaxSteps + 1
    /\ \E i \in Rows :
          ~bs_state.finished[i] /\ bs_state.lengths[i] = MaxSteps + 1

\* ----------------------------------------------------------------- C22
\* C22: over any sequence of save and load calls, save writes a checkpoint
\* only when a save path is configured and load restores only when a load
\* path is configured (each is otherwise a no-op that creates no saver), and
\* the saver is created at most once and then reused by every later save or
\* load.
C22_Checkpointing ==
    /\ [](/\ model_part.savers_created <= 1
          /\ model_part._saver = model_part.savers_created
          /\ \A n \in 1 .. Len(model_part.events) :
                LET e == model_part.events[n]
                IN  /\ e.saver = 1 /\ e.saver = model_part._saver
                    /\ e.op = "save" =>
                          /\ Truthy(model_part._save_checkpoint)
                          /\ e.path = model_part._save_checkpoint
                    /\ e.op = "restore" =>
                          /\ Truthy(model_part._load_checkpoint)
                          /\ e.path = model_part._load_checkpoint
          /\ Len(model_part.events) <= model_part.calls
          /\ (Truthy(model_part._save_checkpoint) /\ Truthy(model_part._load_checkpoint))
                => Len(model_part.events) = model_part.calls)
    /\ [][(model_part'.calls = model_part.calls + 1
             /\ model_part'.events = model_part.events) =>
            /\ model_part'._saver = model_part._saver
            /\ model_part'.savers_created = model_part.savers_created]_vars
    /\ [][model_part'.calls = model_part.calls + 1 =>
            /\ Len(model_part'.events) <= Len(model_part.events) + 1
            /\ SubSeq(model_part'.events, 1, Len(model_part.events)) = model_part.events
            /\ model_part'._save_checkpoint = model_part._save_checkpoint
            /\ model_part'._load_checkpoint = model_part._load_checkpoint]_vars

\* MaxCalls calls on a part with both paths: a save and a restore were made
\* on the one saver
C22_Witness ==
    /\ model_part.calls = MaxCalls
    /\ model_part.savers_created = 1
    /\ Len(model_part.events) = MaxCalls
    /\ \E n \in 1 .. Len(model_part.events) : model_part.events[n].op = "save"
    /\ \E n \in 1 .. Len(model_part.events) : model_part.events[n].op = "restore"

\* calls on a part without a load path: a load that did nothing, no saver
C22_WitnessNoOp ==
    /\ model_part.calls = MaxCalls
    /\ model_part._load_checkpoint = ""
    /\ model_part.events = <<>>
    /\ model_part._saver = 0

====
